---- MODULE Spec2Model ----
(***************************************************************************)
(* A model of trip-plan.py: parse_stay, the helpers and main().            *)
(*                                                                         *)
(* Python values are modelled as follows.                                  *)
(*   str        a sequence of one-character strings                        *)
(*   timedelta  [days, seconds], 0 <= seconds < 86400, as CPython keeps it *)
(*              (microseconds are always 0 here: every duration the        *)
(*              program builds is a whole number of seconds)               *)
(*   datetime   [ord, sec]: the proleptic Gregorian ordinal of the date    *)
(*              (date.toordinal()) and the second of the day               *)
(*   a cell of the data frame (row['stay']): [kind, chars, val], kind      *)
(*              "na" (None / NaN), "str" (text) or "int" (a number)        *)
(***************************************************************************)
EXTENDS Integers, Sequences, FiniteSets, TLC

VARIABLES
    pc,            \* where main() is: "start", "loop", "txt", "html", "done" (returned at the
                   \* end), "exit" (returned at line 51 or 59), "crashed" (an exception left it)
    API_KEY,       \* line 9: os.getenv('GOOGLE_MAPS_API_KEY')
    input_file,    \* the file INPUT_FILE names: whether it exists, and the rows read_csv yields
    i,             \* line 66: the loop index (1-based here)
    current_time,  \* line 61
    itinerary,     \* line 62
    drive_log,     \* drive_seconds of each stop appended (the local of lines 73-93)
    calls,         \* the gmaps.distance_matrix calls: the rows asked about, and the last return (the local res)
    days,          \* line 103: the dict, as its insertion-ordered sequence of [d, stops]
    files,         \* TXT_OUTPUT and HTML_OUTPUT: as before the run, or what the run wrote
    writes,        \* the files opened for writing, in order
    printed,       \* the messages printed
    raised,        \* the exception that ended main(), or "none"
    stay_str,      \* parse_stay's argument (the function on its own)
    stay_td        \* parse_stay's return value

vars == <<pc, API_KEY, input_file, i, current_time, itinerary, drive_log, calls,
          days, files, writes, printed, raised, stay_str, stay_td>>

mainVars == <<pc, API_KEY, input_file, i, current_time, itinerary, drive_log, calls,
              days, files, writes, printed, raised>>

\* line 56: the data frame read_csv returns. main() never modifies it: it is the
\* rows of the input file throughout.
df == input_file.rows

----------------------------------------------------------------------------
(* Bounds *)

\* The longest stay text the stay parser is tried on, exhaustively.
MaxLen == 4

\* The most rows the input file holds.
MaxRows == 3

----------------------------------------------------------------------------
(* Python values *)

Str(s) == [kind |-> "str", chars |-> s, val |-> 0]

NA == [kind |-> "na", chars |-> <<>>, val |-> 0]

Num(n) == [kind |-> "int", chars |-> <<>>, val |-> n]

Digits == <<"0", "1", "2", "3", "4", "5", "6", "7", "8", "9">>

IsDigit(c) == \E d \in 1..10 : Digits[d] = c

DigitVal(c) == (CHOOSE d \in 1..10 : Digits[d] = c) - 1

RECURSIVE NatChars(_)
\* str(n) of a natural number
NatChars(n) == IF n < 10 THEN <<Digits[n + 1]>>
               ELSE Append(NatChars(n \div 10), Digits[(n % 10) + 1])

\* str(x) of a cell: text is itself, a number is its decimal form
PyStr(x) == IF x.kind = "str" THEN x.chars
            ELSE IF x.kind = "int"
                 THEN IF x.val < 0 THEN <<"-">> \o NatChars(-x.val) ELSE NatChars(x.val)
                 ELSE <<"n", "a", "n">>

\* pd.isna(x)
IsNa(x) == x.kind = "na"

RECURSIVE SplitFrom(_, _, _)
\* s.split(sep), given the part being read
SplitFrom(s, sep, cur) ==
    IF s = <<>> THEN <<cur>>
    ELSE IF Head(s) = sep THEN <<cur>> \o SplitFrom(Tail(s), sep, <<>>)
         ELSE SplitFrom(Tail(s), sep, Append(cur, Head(s)))

Split(s, sep) == SplitFrom(s, sep, <<>>)

RECURSIVE LStrip(_)
LStrip(s) == IF s # <<>> /\ Head(s) = " " THEN LStrip(Tail(s)) ELSE s

RECURSIVE RStrip(_)
RStrip(s) == IF s # <<>> /\ s[Len(s)] = " " THEN RStrip(SubSeq(s, 1, Len(s) - 1)) ELSE s

\* The digits of an int() literal: digits, single underscores only between digits.
IsDigitRun(s) ==
    /\ s # <<>>
    /\ IsDigit(s[1])
    /\ IsDigit(s[Len(s)])
    /\ \A k \in 1..Len(s) : IsDigit(s[k]) \/ s[k] = "_"
    /\ \A k \in 1..(Len(s) - 1) : ~(s[k] = "_" /\ s[k + 1] = "_")

\* int(s): [ok, neg, digits]; surrounding whitespace and one sign are accepted.
\* ok = FALSE stands for ValueError.
PyInt(s) ==
    LET t == RStrip(LStrip(s))
        signed == t # <<>> /\ t[1] \in {"-", "+"}
        body == IF signed THEN Tail(t) ELSE t
    IN  [ok |-> IsDigitRun(body),
         neg |-> signed /\ t[1] = "-",
         digits |-> SelectSeq(body, IsDigit)]

----------------------------------------------------------------------------
(* datetime.timedelta and datetime.datetime *)

\* timedelta(hours=1), the default of parse_stay
OneHour == [days |-> 0, seconds |-> 3600]

RECURSIVE DivDigits(_, _, _, _)
\* divmod of the natural number with decimal digits ds by k, continuing from
\* quotient q and remainder r. Python's int is unbounded; the quotient is kept
\* exactly below 2^30 and held at 2^30 from there on.
DivDigits(ds, k, q, r) ==
    IF ds = <<>> THEN [q |-> q, r |-> r]
    ELSE LET n == r * 10 + DigitVal(Head(ds))
             q10 == IF q > 107374182 THEN 1073741824 ELSE q * 10 + (n \div k)
         IN  DivDigits(Tail(ds), k, IF q10 > 1073741824 THEN 1073741824 ELSE q10, n % k)

\* timedelta(hours=h, minutes=m) for h, m as int() returns them: [ok, days, seconds].
\* ok = FALSE stands for OverflowError (|days| > 999999999 once normalised).
\* A part of 2^30 days or more overflows whatever the other part is, as long as
\* the other part has fewer than 73741823 days, which holds of every text of the
\* input sets below.
TimedeltaHM(h, m) ==
    LET dh == DivDigits(h.digits, 24, 0, 0)
        dm == DivDigits(m.digits, 1440, 0, 0)
        sh == IF h.neg THEN -1 ELSE 1
        sm == IF m.neg THEN -1 ELSE 1
        huge == dh.q = 1073741824 \/ dm.q = 1073741824
        secs == sh * dh.r * 3600 + sm * dm.r * 60
        d == sh * dh.q + sm * dm.q + (secs \div 86400)
    IN  IF huge \/ d < -999999999 \/ d > 999999999
        THEN [ok |-> FALSE, days |-> 0, seconds |-> 0]
        ELSE [ok |-> TRUE, days |-> d, seconds |-> secs % 86400]

\* timedelta(seconds=n) for an int n
TimedeltaSeconds(n) == [days |-> n \div 86400, seconds |-> n % 86400]

\* date.max.toordinal(): datetime(9999, 12, 31)
MaxOrdinal == 3652059

\* dt + td: [ok, ord, sec]; ok = FALSE stands for OverflowError (date value out of range)
DtAdd(dt, td) ==
    LET s == dt.sec + td.seconds
        o == dt.ord + td.days + (s \div 86400)
    IN  IF o < 1 \/ o > MaxOrdinal
        THEN [ok |-> FALSE, ord |-> 0, sec |-> 0]
        ELSE [ok |-> TRUE, ord |-> o, sec |-> s % 86400]

DtOf(r) == [ord |-> r.ord, sec |-> r.sec]

----------------------------------------------------------------------------
(* parse_stay, lines 15-20 *)

\* Line 18 with too many parts: the stay parser keeps only the first two.
parse_stay_first_two(x) ==
    IF IsNa(x) \/ (x.kind = "str" /\ x.chars = <<>>) THEN OneHour
    ELSE LET parts == Split(PyStr(x), ":")
         IN  IF Len(parts) < 2 THEN OneHour
             ELSE LET h == PyInt(parts[1])
                      m == PyInt(parts[2])
                      td == TimedeltaHM(h, m)
                  IN  IF h.ok /\ m.ok /\ td.ok
                      THEN [days |-> td.days, seconds |-> td.seconds]
                      ELSE OneHour

parse_stay(x) ==
    IF IsNa(x) \/ (x.kind = "str" /\ x.chars = <<>>) THEN OneHour
    ELSE LET parts == Split(PyStr(x), ":")
         IN  \* h, m = map(int, ...): ValueError unless there are exactly two parts
             IF Len(parts) # 2 THEN OneHour
             ELSE LET h == PyInt(parts[1])
                      m == PyInt(parts[2])
                      td == TimedeltaHM(h, m)
                  IN  \* a ValueError of int() or an OverflowError of timedelta(): line 20
                      IF h.ok /\ m.ok /\ td.ok
                      THEN [days |-> td.days, seconds |-> td.seconds]
                      ELSE OneHour

\* format_stay_string, lines 22-24: [hours, minutes]. total_seconds // 3600 is
\* days * 24 + seconds // 3600, as 3600 divides 86400.
format_stay_string(td) ==
    [hours |-> td.days * 24 + (td.seconds \div 3600),
     minutes |-> (td.seconds % 3600) \div 60]

----------------------------------------------------------------------------
(* The stay parser on its own: every text up to MaxLen characters, and more *)

Alphabet == {"0", "7", ":", "-", "+", " ", "_", "a"}

ShortTexts == UNION {[1..n -> Alphabet] : n \in 0..MaxLen}

LongTexts ==
    { <<"1", ":", "2", ":", "3">>,
      <<"2", ":", "3", "0", ":">>,
      <<" ", "2", " ", ":", " ", "3", "0", " ">>,
      <<"1", "_", "0", ":", "0", "_", "5">>,
      <<"-", "1", "2", ":", "-", "3", "0">>,
      <<"9", "9", "9", "9", "9", "9", "9", "9", ":", "0", "0">>,
      <<"2", "3", "9", "9", "9", "9", "9", "9", "9", "9", "9", ":", "5", "9">>,
      <<"2", "4", "0", "0", "0", "0", "0", "0", "0", "0", "0", ":", "0", "0">>,
      <<"-", "2", "3", "9", "9", "9", "9", "9", "9", "9", "7", "6", ":", "0">>,
      <<"-", "2", "3", "9", "9", "9", "9", "9", "9", "9", "9", "9", ":", "0">>,
      <<"0", ":", "1", "4", "4", "0", "0", "0", "0", "0", "0", "0", "0", "0", "0">> }

StayInputs ==
    {NA} \cup {Num(n) : n \in {0, 5, 230}}
         \cup {Str(s) : s \in ShortTexts \cup LongTexts}

InitParse ==
    /\ stay_str \in StayInputs
    /\ stay_td = <<>>
    /\ pc = "parse_stay"
    /\ API_KEY = "" /\ input_file = [exists |-> FALSE, rows |-> <<>>] /\ i = 0
    /\ current_time = [ord |-> 0, sec |-> 0]
    /\ itinerary = <<>> /\ drive_log = <<>> /\ calls = [pairs |-> <<>>, res |-> <<>>]
    /\ days = <<>> /\ files = <<>> /\ writes = <<>> /\ printed = <<>> /\ raised = "none"

\* stay_td = parse_stay(stay_str)
CallParseStay ==
    /\ pc = "parse_stay"
    /\ stay_td = <<>>
    /\ stay_td' = <<parse_stay(stay_str)>>
    /\ UNCHANGED <<mainVars, stay_str>>

NextParse == CallParseStay

SpecParse == InitParse /\ [][NextParse]_vars

----------------------------------------------------------------------------
(* The calendar: datetime(y, m, d, ...), strftime *)

DaysInMonth == <<31, 28, 31, 30, 31, 30, 31, 31, 30, 31, 30, 31>>

DaysBeforeMonth == <<0, 31, 59, 90, 120, 151, 181, 212, 243, 273, 304, 334>>

IsLeap(y) == y % 4 = 0 /\ (y % 100 # 0 \/ y % 400 = 0)

\* date(y, m, d).toordinal()
Ymd2ord(y, m, d) ==
    LET p == y - 1
    IN  p * 365 + (p \div 4) - (p \div 100) + (p \div 400)
        + DaysBeforeMonth[m] + (IF m > 2 /\ IsLeap(y) THEN 1 ELSE 0) + d

\* date.fromordinal(o): [year, month, day]
Ord2ymd(o) ==
    LET n0 == o - 1
        n400 == n0 \div 146097
        a == n0 % 146097
        n100 == a \div 36524
        b == a % 36524
        n4 == b \div 1461
        c == b % 1461
        n1 == c \div 365
        n == c % 365
        year == n400 * 400 + 1 + n100 * 100 + n4 * 4 + n1
        leap == n1 = 3 /\ (n4 # 24 \/ n100 = 3)
        m0 == (n + 50) \div 32
        pre0 == DaysBeforeMonth[m0] + (IF m0 > 2 /\ leap THEN 1 ELSE 0)
        month == IF pre0 > n THEN m0 - 1 ELSE m0
        pre == IF pre0 > n
               THEN pre0 - (DaysInMonth[month] + (IF month = 2 /\ leap THEN 1 ELSE 0))
               ELSE pre0
    IN  IF n1 = 4 \/ n100 = 4
        THEN [year |-> year - 1, month |-> 12, day |-> 31]
        ELSE [year |-> year, month |-> month, day |-> n - pre + 1]

\* dt.strftime("%A, %B %d"), line 105: the weekday (Monday is 0), the month and the
\* day of the month, which the names and the padding render one to one. The
\* year and the time of day are not part of the label.
DayLabel(dt) ==
    LET ymd == Ord2ymd(dt.ord)
    IN  [weekday |-> (dt.ord + 6) % 7, month |-> ymd.month, day |-> ymd.day]

\* dt.strftime('%-I:%M %p'), lines 115 and 146-148
Clock12(dt) ==
    LET h == dt.sec \div 3600
    IN  [hour |-> IF h % 12 = 0 THEN 12 ELSE h % 12,
         minute |-> (dt.sec % 3600) \div 60,
         pm |-> h >= 12]

\* line 13
TRIP_START_TIME == [ord |-> Ymd2ord(2026, 2, 26), sec |-> 22 * 3600 + 0 * 60]

----------------------------------------------------------------------------
(* The inputs of main(): the environment, the input file, the routing service *)

\* os.getenv: unset (None), set to the empty string, or set to a key (one that
\* googlemaps.Client accepts: line 53 is taken to succeed)
KeyValues == { [set |-> FALSE, value |-> ""],
               [set |-> TRUE, value |-> ""],
               [set |-> TRUE, value |-> "AIza-key"] }

\* The stay column of the rows main() is run on: an empty cell (NaN), "3:00",
\* "-4:00", "52560:00" (six years) and "99999999:00".
MainStays ==
    { NA,
      Str(<<"3", ":", "0", "0">>),
      Str(<<"-", "4", ":", "0", "0">>),
      Str(<<"5", "2", "5", "6", "0", ":", "0", "0">>),
      Str(<<"9", "9", "9", "9", "9", "9", "9", "9", ":", "0", "0">>) }

\* parse_stay on each of them
StayOf == [x \in MainStays |-> parse_stay(x)]

\* The coordinates of the rows: two places on one latitude.
Places == { [lat |-> 0, lng |-> 0], [lat |-> 0, lng |-> 1] }

StopNames == <<"A", "B", "C", "D", "E", "F">>

\* The row sequences read_csv may yield: up to MaxRows rows, named in order.
\* The comments column, which only the renderers print, is left out.
RowsOfLen(n) ==
    { [k \in 1..n |-> [name |-> StopNames[k], lat |-> f[k][1].lat, lng |-> f[k][1].lng,
                       stay |-> f[k][2]]] :
        f \in [1..n -> Places \X MainStays] }

InputFiles ==
    { [exists |-> FALSE, rows |-> <<>>] }
        \cup { [exists |-> TRUE, rows |-> r] : r \in UNION { RowsOfLen(n) : n \in 0..MaxRows } }

\* What gmaps.distance_matrix does on one call: it raises, or it returns res.
\*   raises        the call raises (transport error, timeout, ApiError)
\*   has_element   res['rows'][0]['elements'][0] exists
\*   has_status    the element has a 'status'
\*   has_duration  the element has a 'duration'
\*   text_kind     duration['text'] is a "str", is "other" (not a str), or is "absent"
\*   value_kind    duration['value'] is an "int", is a "str", or is "absent"
Response(raises, has_element, has_status, status, has_duration, text_kind, text, value_kind, value) ==
    [raises |-> raises, has_element |-> has_element, has_status |-> has_status,
     status |-> status, has_duration |-> has_duration, text_kind |-> text_kind,
     text |-> text, value_kind |-> value_kind, value |-> value]

Text30Mins == <<"3", "0", " ", "m", "i", "n", "s">>

Text2Hours5Mins == <<"2", " ", "h", "o", "u", "r", "s", " ", "5", " ", "m", "i", "n", "s">>

Responses ==
    { Response(TRUE, FALSE, FALSE, "", FALSE, "absent", <<>>, "absent", 0),
      Response(FALSE, FALSE, FALSE, "", FALSE, "absent", <<>>, "absent", 0),
      Response(FALSE, TRUE, FALSE, "", FALSE, "absent", <<>>, "absent", 0),
      Response(FALSE, TRUE, TRUE, "ZERO_RESULTS", FALSE, "absent", <<>>, "absent", 0),
      Response(FALSE, TRUE, TRUE, "OK", FALSE, "absent", <<>>, "absent", 0),
      Response(FALSE, TRUE, TRUE, "OK", TRUE, "str", Text30Mins, "str", 0),
      Response(FALSE, TRUE, TRUE, "OK", TRUE, "str", Text2Hours5Mins, "int", 7500) }

----------------------------------------------------------------------------
(* The route lookup of one pair, lines 81-93 *)

RECURSIVE Replace(_, _, _)
\* s.replace(old, new)
Replace(s, old, new) ==
    IF Len(s) < Len(old) THEN s
    ELSE IF SubSeq(s, 1, Len(old)) = old
         THEN new \o Replace(SubSeq(s, Len(old) + 1, Len(s)), old, new)
         ELSE <<Head(s)>> \o Replace(Tail(s), old, new)

\* line 86: .replace("hours", "hrs").replace("mins", "min")
Abbreviate(text) ==
    Replace(Replace(text, <<"h", "o", "u", "r", "s">>, <<"h", "r", "s">>),
            <<"m", "i", "n", "s">>, <<"m", "i", "n">>)

\* The labels of lines 72, 78, 89 and 92. f"0 min ({x})" is kept as its three parts.
NoDrive == <<"-">>

ZeroMin(x) == <<"0 min (", x, ")">>

\* A drive_seconds value: an int, or (num = FALSE) something timedelta() rejects
Seconds(n) == [num |-> TRUE, val |-> n]

NotANumber == [num |-> FALSE, val |-> 0]

\* The shortcut is never taken.
SameLocation_never(row, next_row) == FALSE

\* A comparison of the latitudes alone.
SameLocation_lat_only(row, next_row) == row.lat = next_row.lat

\* line 77
SameLocation(row, next_row) == row.lat = next_row.lat /\ row.lng = next_row.lng

\* lines 91-93
ApiError == [drive_time |-> ZeroMin("API Error"), drive_seconds |-> Seconds(0)]

\* lines 81-93, given what the call did: [drive_time, drive_seconds]
RouteResult(res) ==
    IF res.raises \/ ~res.has_element
    THEN ApiError                          \* line 82 raised, or line 83 did
    ELSE IF res.has_status /\ res.status = "OK"
         THEN IF ~res.has_duration \/ res.text_kind # "str" \/ res.value_kind = "absent"
              THEN ApiError                \* KeyError or AttributeError on lines 86-87
              ELSE [drive_time |-> Abbreviate(res.text),
                    drive_seconds |-> IF res.value_kind = "int"
                                      THEN Seconds(res.value) ELSE NotANumber]
         ELSE [drive_time |-> ZeroMin(IF res.has_status THEN res.status ELSE "None"),
               drive_seconds |-> Seconds(0)]

\* line 26
get_pin_link(lat, lng) == <<"http://maps.google.com/?q=", lat, ",", lng>>

\* lines 37-46: the base and the "lat,lng" segments joined by "/"
get_daily_route_link(stops) ==
    IF stops = <<>> THEN [base |-> "", path |-> <<>>]
    ELSE [base |-> "https://www.google.com/maps/dir/",
          path |-> [k \in 1..Len(stops) |-> <<stops[k].lat, stops[k].lng>>]]

----------------------------------------------------------------------------
(* main(), lines 48-156 *)

\* An output file: as it was before the run (absent, or left by an earlier run),
\* or opened with "w" and written by this run.
PriorFile == [written |-> FALSE, content |-> <<>>]

WrittenFile(content) == [written |-> TRUE, content |-> content]

\* No call has been made yet: the local res is unbound.
NoRes == <<>>

Init ==
    /\ pc = "start"
    /\ API_KEY \in KeyValues
    /\ input_file \in InputFiles
    /\ files = [txt |-> PriorFile, html |-> PriorFile]
    /\ i = 0
    /\ current_time = [ord |-> 0, sec |-> 0]
    /\ itinerary = <<>> /\ drive_log = <<>> /\ calls = [pairs |-> <<>>, res |-> NoRes]
    /\ days = <<>> /\ writes = <<>> /\ printed = <<>> /\ raised = "none"
    /\ stay_str = NA /\ stay_td = <<>>

\* A startup check that never finds the credential missing.
CredentialMissing_never(key) == FALSE

\* line 49: not API_KEY
CredentialMissing(key) == ~key.set \/ key.value = ""

\* lines 49-64
Start ==
    /\ pc = "start"
    /\ IF CredentialMissing(API_KEY)
       THEN /\ printed' = Append(printed, "Error: GOOGLE_MAPS_API_KEY not set.")
            /\ pc' = "exit"
            /\ UNCHANGED <<i, current_time, itinerary>>
       ELSE IF ~input_file.exists
            THEN /\ printed' = Append(printed, "Error: trip-destinations.csv not found.")
                 /\ pc' = "exit"
                 /\ UNCHANGED <<i, current_time, itinerary>>
            ELSE /\ current_time' = TRIP_START_TIME
                 /\ itinerary' = <<>>
                 /\ i' = 1
                 /\ printed' = Append(printed, "Calculating route data via Google Maps API...")
                 /\ pc' = "loop"
    /\ UNCHANGED <<API_KEY, input_file, drive_log, calls, days, files, writes, raised,
                   stay_str, stay_td>>

\* line 70
Departure(arrival, stay) == DtAdd(arrival, stay)

\* The clock moves on without the drive.
NextCurrentTime_no_drive(departure, drive_seconds) ==
    DtAdd(departure, TimedeltaSeconds(0))

\* line 101
NextCurrentTime(departure, drive_seconds) ==
    DtAdd(departure, TimedeltaSeconds(drive_seconds))

\* lines 75-77: the routing service is asked about row k and the next
NeedsCall(rows, k) == k < Len(rows) /\ ~SameLocation(rows[k], rows[k + 1])

\* lines 72-79 when no call is made
DriveWithoutCall(rows, k) ==
    IF k < Len(rows)
    THEN [drive_time |-> ZeroMin("Same location"), drive_seconds |-> Seconds(0)]
    ELSE [drive_time |-> NoDrive, drive_seconds |-> Seconds(0)]

\* lines 95-100
Stop(row, stay, arrival, departure, drive_time) ==
    [name |-> row.name, lat |-> row.lat, lng |-> row.lng,
     stay_str |-> format_stay_string(stay), arrival |-> arrival,
     departure |-> departure, drive_to_next |-> drive_time,
     pin |-> get_pin_link(row.lat, row.lng)]

\* lines 95-101, given the route of lines 72-93
AppendStop(row, stay, arrival, dep, route) ==
    /\ itinerary' = Append(itinerary, Stop(row, stay, arrival, dep, route.drive_time))
    /\ drive_log' = Append(drive_log, route.drive_seconds)
    /\ IF ~route.drive_seconds.num
       THEN \* timedelta(seconds=...) of line 101 raises TypeError
            /\ pc' = "crashed" /\ raised' = "TypeError"
            /\ UNCHANGED <<i, current_time>>
       ELSE LET nxt == NextCurrentTime(dep, route.drive_seconds.val)
            IN  IF ~nxt.ok
                THEN /\ pc' = "crashed" /\ raised' = "OverflowError"
                     /\ UNCHANGED <<i, current_time>>
                ELSE /\ current_time' = DtOf(nxt)
                     /\ i' = i + 1
                     /\ pc' = "loop"
                     /\ UNCHANGED raised

\* One iteration of the loop, lines 66-101
Enrich ==
    /\ pc = "loop"
    /\ i <= Len(df)
    /\ LET row == df[i]
           stay == StayOf[row.stay]
           arrival == current_time
           dep == Departure(arrival, stay)
       IN  IF ~dep.ok
           THEN \* line 70 raises OverflowError
                /\ pc' = "crashed" /\ raised' = "OverflowError"
                /\ UNCHANGED <<i, current_time, itinerary, drive_log, calls>>
           ELSE IF NeedsCall(df, i)
                THEN \E res \in Responses :
                        /\ calls' = [pairs |-> Append(calls.pairs, i), res |-> <<res>>]
                        /\ AppendStop(row, stay, arrival, DtOf(dep), RouteResult(res))
                ELSE /\ calls' = calls
                     /\ AppendStop(row, stay, arrival, DtOf(dep), DriveWithoutCall(df, i))
    /\ UNCHANGED <<API_KEY, input_file, days, files, writes, printed, stay_str, stay_td>>

\* line 105
DayKey(s) == DayLabel(s.arrival)

RECURSIVE GroupFrom(_, _)
\* lines 104-107, from the dict built so far
GroupFrom(stops, acc) ==
    IF stops = <<>> THEN acc
    ELSE LET s == Head(stops)
             hit == {k \in 1..Len(acc) : acc[k].d = DayKey(s)}
         IN  GroupFrom(Tail(stops),
                       IF hit = {}
                       THEN Append(acc, [d |-> DayKey(s), stops |-> <<s>>])
                       ELSE [acc EXCEPT ![CHOOSE k \in hit : TRUE].stops = Append(@, s)])

\* lines 103-107
Group ==
    /\ pc = "loop"
    /\ i > Len(df)
    /\ days' = GroupFrom(itinerary, <<>>)
    /\ pc' = "txt"
    /\ UNCHANGED <<API_KEY, input_file, i, current_time, itinerary, drive_log, calls,
                   files, writes, printed, raised, stay_str, stay_td>>

\* lines 114-119, one stop; the drive line is written unless the label is "-"
TxtStop(s) ==
    [name |-> s.name, arrive |-> Clock12(s.arrival), stay |-> s.stay_str,
     depart |-> Clock12(s.departure),
     drive |-> IF s.drive_to_next # NoDrive THEN <<s.drive_to_next>> ELSE <<>>,
     pin |-> s.pin]

\* The text renderer leaves out the last stop of every day.
RenderTxt_drops_last(ds) ==
    [k \in 1..Len(ds) |->
        [header |-> ds[k].d,
         route |-> get_daily_route_link(ds[k].stops),
         stops |-> [j \in 1..(Len(ds[k].stops) - 1) |-> TxtStop(ds[k].stops[j])]]]

\* lines 111-119
RenderTxt(ds) ==
    [k \in 1..Len(ds) |->
        [header |-> ds[k].d,
         route |-> get_daily_route_link(ds[k].stops),
         stops |-> [j \in 1..Len(ds[k].stops) |-> TxtStop(ds[k].stops[j])]]]

\* lines 139-152, one stop
HtmlStop(s) ==
    [name |-> s.name, arrive |-> Clock12(s.arrival), stay |-> s.stay_str,
     depart |-> Clock12(s.departure),
     drive |-> IF s.drive_to_next # NoDrive THEN <<s.drive_to_next>> ELSE <<>>,
     href |-> s.pin]

\* lines 135-153
RenderHtml(ds) ==
    [k \in 1..Len(ds) |->
        [h2 |-> ds[k].d,
         href |-> get_daily_route_link(ds[k].stops),
         stops |-> [j \in 1..Len(ds[k].stops) |-> HtmlStop(ds[k].stops[j])]]]

\* lines 110-119
GenerateTxt ==
    /\ pc = "txt"
    /\ writes' = Append(writes, "trip-itinerary.txt")
    /\ files' = [files EXCEPT !.txt = WrittenFile(RenderTxt(days))]
    /\ pc' = "html"
    /\ UNCHANGED <<API_KEY, input_file, i, current_time, itinerary, drive_log, calls,
                   days, printed, raised, stay_str, stay_td>>

\* lines 122-156
GenerateHtml ==
    /\ pc = "html"
    /\ writes' = Append(writes, "index.html")
    /\ files' = [files EXCEPT !.html = WrittenFile(RenderHtml(days))]
    /\ printed' = Append(printed, "Success! Generated: trip-itinerary.txt, index.html")
    /\ pc' = "done"
    /\ UNCHANGED <<API_KEY, input_file, i, current_time, itinerary, drive_log, calls,
                   days, raised, stay_str, stay_td>>

Next == Start \/ Enrich \/ Group \/ GenerateTxt \/ GenerateHtml

Spec == Init /\ [][Next]_vars

----------------------------------------------------------------------------
(* Notions the properties below are stated in *)

\* a <= b on datetimes
DtLeq(a, b) == a.ord < b.ord \/ (a.ord = b.ord /\ a.sec <= b.sec)

\* The coordinates of rows k and k + 1 differ.
CoordsDiffer(k) == df[k].lat # df[k + 1].lat \/ df[k].lng # df[k + 1].lng

RECURSIVE PairsThatDiffer(_)
\* The pairs (k, k + 1), k <= m, of differing coordinates, in visit order
PairsThatDiffer(m) ==
    IF m = 0 THEN <<>>
    ELSE IF m < Len(df) /\ CoordsDiffer(m)
         THEN Append(PairsThatDiffer(m - 1), m)
         ELSE PairsThatDiffer(m - 1)

RECURSIVE Flatten(_)
\* The stop lists of the day groups, concatenated in the order of the groups
Flatten(ds) == IF ds = <<>> THEN <<>> ELSE Head(ds).stops \o Flatten(Tail(ds))

\* The group a stop of the itinerary was put in
GroupOf(k) == CHOOSE g \in 1..Len(days) : \E j \in 1..Len(days[g].stops) : days[g].stops[j] = itinerary[k]

\* The enrichment loop is over and the grouping done.
Grouped == pc \in {"txt", "html", "done"}

\* A response as the routing service documents it: an element with a status,
\* and with status OK a duration of a text and a number of seconds.
Success(r) ==
    /\ ~r.raises /\ r.has_element /\ r.has_status /\ r.status = "OK"
    /\ r.has_duration /\ r.text_kind = "str" /\ r.value_kind = "int"

NonSuccess(r) == ~r.raises /\ r.has_element /\ r.has_status /\ r.status # "OK"

\* The call raised, or what it returned is neither of the above.
CallFailure(r) == ~Success(r) /\ ~NonSuccess(r)

\* The stay text is H:M: one colon, an integer literal on each side.
IsHM(x) ==
    /\ x.kind = "str"
    /\ \E k \in 1..Len(x.chars) :
          /\ x.chars[k] = ":"
          /\ \A j \in 1..Len(x.chars) : x.chars[j] = ":" => j = k
          /\ PyInt(SubSeq(x.chars, 1, k - 1)).ok
          /\ PyInt(SubSeq(x.chars, k + 1, Len(x.chars))).ok

HoursOf(x) ==
    LET k == CHOOSE k \in 1..Len(x.chars) : x.chars[k] = ":"
    IN  PyInt(SubSeq(x.chars, 1, k - 1))

MinutesOf(x) ==
    LET k == CHOOSE k \in 1..Len(x.chars) : x.chars[k] = ":"
    IN  PyInt(SubSeq(x.chars, k + 1, Len(x.chars)))

RECURSIVE NatOf(_)
\* The number with the decimal digits ds (at most nine of them)
NatOf(ds) == IF ds = <<>> THEN 0 ELSE NatOf(SubSeq(ds, 1, Len(ds) - 1)) * 10 + DigitVal(ds[Len(ds)])

IntOf(n) == IF n.neg THEN -NatOf(n.digits) ELSE NatOf(n.digits)

\* Both H and M have at most seven digits: 60 * H + M is computed directly.
SmallHM(x) == Len(HoursOf(x).digits) <= 7 /\ Len(MinutesOf(x).digits) <= 7

\* The duration td is h hours and m minutes, counted in minutes.
IsHoursMinutes(td, h, m) ==
    /\ td.seconds % 60 = 0
    /\ td.days * 1440 + (td.seconds \div 60) = 60 * h + m

\* H hours and M minutes as days and seconds, whatever their size: the days
\* are exact below 2^30 and 2^30 from there on.
HoursMinutes(x) ==
    LET h == HoursOf(x)
        m == MinutesOf(x)
        dh == DivDigits(h.digits, 24, 0, 0)
        dm == DivDigits(m.digits, 1440, 0, 0)
        secs == (IF h.neg THEN -1 ELSE 1) * dh.r * 3600 + (IF m.neg THEN -1 ELSE 1) * dm.r * 60
    IN  IF dh.q = 1073741824 \/ dm.q = 1073741824
        THEN [days |-> IF (dh.q = 1073741824 /\ h.neg) \/ (dm.q = 1073741824 /\ m.neg)
                       THEN -1073741824 ELSE 1073741824,
              seconds |-> 0]
        ELSE [days |-> (IF h.neg THEN -1 ELSE 1) * dh.q + (IF m.neg THEN -1 ELSE 1) * dm.q
                        + (secs \div 86400),
              seconds |-> secs % 86400]

\* The duration is one a timedelta can hold.
InTimedeltaRange(d) == d.days >= -999999999 /\ d.days <= 999999999

----------------------------------------------------------------------------
(* C1 *)

\* C1: the itinerary built by the enrichment pass is chained: the first arrival
\* is the trip start time, every departure is the arrival plus the parsed stay,
\* and every later arrival is the previous departure plus the drive seconds
\* obtained for that pair.
C1_TimestampChain ==
    /\ Len(drive_log) = Len(itinerary)
    /\ Len(itinerary) >= 1 => itinerary[1].arrival = TRIP_START_TIME
    /\ \A k \in 1..Len(itinerary) :
          LET d == DtAdd(itinerary[k].arrival, StayOf[df[k].stay])
          IN  d.ok /\ itinerary[k].departure = DtOf(d)
    /\ \A k \in 1..(Len(itinerary) - 1) :
          /\ drive_log[k].num
          /\ LET a == DtAdd(itinerary[k].departure, TimedeltaSeconds(drive_log[k].val))
             IN  a.ok /\ itinerary[k + 1].arrival = DtOf(a)

\* A finished run of three stops with a drive of 7500 seconds after the first.
C1_Witness ==
    /\ pc = "done"
    /\ Len(itinerary) = 3
    /\ drive_log[1] = Seconds(7500)
    /\ df[1].stay # NA

----------------------------------------------------------------------------
(* C2 *)

\* C2: once the credential is present and the input loaded, the enrichment
\* loop never aborts, and it ends with exactly one stop per row, in row order.
C2_EnrichmentNeverAborts ==
    /\ pc # "crashed"
    /\ Grouped => /\ Len(itinerary) = Len(df)
                  /\ \A k \in 1..Len(df) : itinerary[k].name = df[k].name

----------------------------------------------------------------------------
(* C3 *)

\* C3: right after the routing call for a pair, the stop appended for it has:
\* on a success, the response's duration text (as the program abbreviates it)
\* and its seconds; on a non-success status, 0 seconds and a label with the
\* status; on a call failure (the call raised, or the response is malformed),
\* 0 seconds and the "API Error" label; and the loop goes on in every case.
C3_RoutingResultMapping ==
    (calls.res # NoRes /\ Len(itinerary) = calls.pairs[Len(calls.pairs)]) =>
        LET r == calls.res[1]
            k == Len(itinerary)
        IN  /\ Success(r) => /\ itinerary[k].drive_to_next = Abbreviate(r.text)
                             /\ drive_log[k] = Seconds(r.value)
            /\ NonSuccess(r) => /\ itinerary[k].drive_to_next = ZeroMin(r.status)
                                /\ drive_log[k] = Seconds(0)
            /\ CallFailure(r) => /\ itinerary[k].drive_to_next = ZeroMin("API Error")
                                 /\ drive_log[k] = Seconds(0)
            /\ pc # "crashed"

----------------------------------------------------------------------------
(* C4 *)

\* C4: a pair of consecutive rows with equal latitude and longitude is never
\* asked of the routing service, and the stop appended for its first row has
\* 0 drive seconds and the "Same location" label, so that the next arrival is
\* its departure.
C4_SameLocationShortcut ==
    \A k \in 1..(Len(df) - 1) :
        ~CoordsDiffer(k) =>
            /\ \A j \in 1..Len(calls.pairs) : calls.pairs[j] # k
            /\ k <= Len(itinerary) =>
                  /\ drive_log[k] = Seconds(0)
                  /\ itinerary[k].drive_to_next = ZeroMin("Same location")
            /\ k < Len(itinerary) => itinerary[k + 1].arrival = itinerary[k].departure

\* A finished run whose first two rows are at one place and whose stay there
\* is not zero.
C4_Witness ==
    /\ pc = "done"
    /\ Len(df) = 3
    /\ ~CoordsDiffer(1) /\ CoordsDiffer(2)
    /\ itinerary[2].arrival = itinerary[1].departure
    /\ itinerary[1].departure # itinerary[1].arrival

----------------------------------------------------------------------------
(* C5 *)

\* C5: the day groups, concatenated in first-seen order, are the itinerary in
\* visit order, and stops that arrive on different calendar days are in
\* different groups.
C5_DayGroupsReconstructItinerary ==
    Grouped =>
        /\ Flatten(days) = itinerary
        /\ \A a, b \in 1..Len(itinerary) :
              itinerary[a].arrival.ord # itinerary[b].arrival.ord => GroupOf(a) # GroupOf(b)

----------------------------------------------------------------------------
(* C7 *)

\* C7: the stay is never negative, so no stop departs before it arrives.
C7_DepartureNotBeforeArrival ==
    \A k \in 1..Len(itinerary) : DtLeq(itinerary[k].arrival, itinerary[k].departure)

----------------------------------------------------------------------------
(* C8 *)

\* C8: with no credential in the environment, or with no input file, main()
\* stops at startup with one error message (the one about the credential when
\* the variable is unset or empty): it makes no routing call and leaves both
\* output files as they were.
C8_FatalStartupWritesNothing ==
    (~API_KEY.set \/ ~input_file.exists) =>
        /\ pc \in {"start", "exit"}
        /\ calls.pairs = <<>>
        /\ writes = <<>>
        /\ files = [txt |-> PriorFile, html |-> PriorFile]
        /\ pc = "exit" =>
              printed = IF ~API_KEY.set \/ API_KEY.value = ""
                        THEN <<"Error: GOOGLE_MAPS_API_KEY not set.">>
                        ELSE <<"Error: trip-destinations.csv not found.">>

\* main() has returned for want of a credential, with an input file of three
\* rows at differing places.
C8_Witness ==
    /\ pc = "exit"
    /\ ~API_KEY.set
    /\ input_file.exists
    /\ Len(input_file.rows) = 3
    /\ input_file.rows[1].lng # input_file.rows[2].lng

----------------------------------------------------------------------------
(* C9 *)

\* C9: the routing calls made so far are exactly the pairs of differing
\* coordinates among the rows enriched so far, once each and in visit order:
\* none for a pair of equal coordinates, none for the last row, none twice
\* (a failed call is not retried). When the loop is over they are all the
\* differing pairs, at most one fewer than the rows.
C9_OneCallPerDifferingPair ==
    /\ calls.pairs = PairsThatDiffer(Len(itinerary))
    /\ Grouped => /\ calls.pairs = PairsThatDiffer(Len(df))
                  /\ Len(df) > 0 => Len(calls.pairs) <= Len(df) - 1

\* A finished run of three rows: the first pair at one place, the second not,
\* and the one call raised.
C9_Witness ==
    /\ pc = "done"
    /\ Len(df) = 3
    /\ ~CoordsDiffer(1) /\ CoordsDiffer(2)
    /\ calls.pairs = <<2>>
    /\ calls.res[1].raises

----------------------------------------------------------------------------
(* C10 *)

\* The names of the stops of each section of a rendering, or of each day group
SectionNames(sections) ==
    [k \in 1..Len(sections) |->
        [j \in 1..Len(sections[k].stops) |-> sections[k].stops[j].name]]

\* C10: no output file is written before every row is enriched and the stops
\* are grouped; each file is written at most once, the text file first, and
\* both are written when main() is done; and both hold the days and the stops
\* of the one grouping, which still is what it was.
C10_OutputWrittenOnceAtTheEnd ==
    /\ writes \in { <<>>, <<"trip-itinerary.txt">>, <<"trip-itinerary.txt", "index.html">> }
    /\ files.txt.written <=> Len(writes) >= 1
    /\ files.html.written <=> Len(writes) = 2
    /\ writes # <<>> => /\ pc \in {"html", "done"}
                        /\ Len(itinerary) = Len(df)
                        /\ Len(calls.pairs) = Len(PairsThatDiffer(Len(df)))
                        /\ Len(Flatten(days)) = Len(itinerary)
    /\ pc = "html" => writes = <<"trip-itinerary.txt">>
    /\ pc = "done" => writes = <<"trip-itinerary.txt", "index.html">>
    /\ files.txt.written =>
          /\ SectionNames(files.txt.content) = SectionNames(days)
          /\ \A k \in 1..Len(days) : files.txt.content[k].header = days[k].d
    /\ files.html.written =>
          /\ SectionNames(files.html.content) = SectionNames(days)
          /\ \A k \in 1..Len(days) : files.html.content[k].h2 = days[k].d

\* A finished run of three stops over at least two days.
C10_Witness ==
    /\ pc = "done"
    /\ Len(itinerary) = 3
    /\ Len(days) >= 2
    /\ files.txt.written /\ files.html.written

----------------------------------------------------------------------------
(* C6 *)

\* C6 as claimed: parse_stay returns exactly H hours M minutes for every text
\* H:M, and one hour for every other input.
C6_EveryHMTextParsedExactly ==
    stay_td # <<>> =>
        IF IsHM(stay_str)
        THEN stay_td[1] = HoursMinutes(stay_str)
        ELSE stay_td[1] = OneHour

\* C6, amended: parse_stay returns, for a text H:M, exactly H hours M minutes
\* when a timedelta can hold that much (at most 999999999 days either way) and
\* one hour when it cannot; and one hour for every other input.
C6_ParseStay ==
    stay_td # <<>> =>
        /\ Len(stay_td) = 1
        /\ IF IsHM(stay_str)
           THEN /\ IF InTimedeltaRange(HoursMinutes(stay_str))
                   THEN stay_td[1] = HoursMinutes(stay_str)
                   ELSE stay_td[1] = OneHour
                /\ SmallHM(stay_str) =>
                      IsHoursMinutes(stay_td[1], IntOf(HoursOf(stay_str)),
                                     IntOf(MinutesOf(stay_str)))
           ELSE stay_td[1] = OneHour

\* parse_stay has returned one hour for "24000000000:00", which is 1000000000 days.
C6_Witness ==
    /\ stay_str = Str(<<"2", "4", "0", "0", "0", "0", "0", "0", "0", "0", "0", ":", "0", "0">>)
    /\ stay_td = <<OneHour>>

====
